---- MODULE Spec2Model ----
(***************************************************************************)
(* imgcmp: a pixel-wise image comparator (src/src/main.rs).                *)
(*                                                                         *)
(* The module models run() and main()'s exit-code mapping as a sequential  *)
(* state machine, one action per block of the source.  The arithmetic of   *)
(* the source is kept at its width: u8 channel values, u32 counters and    *)
(* products (which wrap in a release build and panic in a build with       *)
(* overflow checks), and f32 values with a 24-bit significand rounded to   *)
(* nearest-even.  Natural numbers that do not fit the model checker's      *)
(* integers are kept as little-endian sequences of 12-bit limbs.           *)
(***************************************************************************)
EXTENDS Integers, Sequences, FiniteSets, TLC

(***************************************************************************)
(* Natural numbers as limb sequences (exact arithmetic).                   *)
(***************************************************************************)
Base == 2^12

RECURSIVE Norm(_)
Norm(s) ==
    IF s = <<>> THEN <<>>
    ELSE IF s[Len(s)] = 0 THEN Norm(SubSeq(s, 1, Len(s) - 1))
    ELSE s

RECURSIVE FromInt(_)
FromInt(n) ==
    IF n = 0 THEN <<>> ELSE <<n % Base>> \o FromInt(n \div Base)

\* Only for values below 2^31.
RECURSIVE ToInt(_)
ToInt(s) ==
    IF s = <<>> THEN 0 ELSE s[1] + Base * ToInt(Tail(s))

Limb(s, i) == IF i <= Len(s) THEN s[i] ELSE 0

RECURSIVE AddFrom(_, _, _, _)
AddFrom(a, b, i, carry) ==
    IF i > Len(a) /\ i > Len(b)
    THEN (IF carry = 0 THEN <<>> ELSE <<carry>>)
    ELSE LET t == Limb(a, i) + Limb(b, i) + carry
         IN  <<t % Base>> \o AddFrom(a, b, i + 1, t \div Base)

AddN(a, b) == Norm(AddFrom(a, b, 1, 0))

\* a * d for one limb d (d < Base)
RECURSIVE MulLimbFrom(_, _, _, _)
MulLimbFrom(a, d, i, carry) ==
    IF i > Len(a)
    THEN (IF carry = 0 THEN <<>> ELSE <<carry>>)
    ELSE LET t == a[i] * d + carry
         IN  <<t % Base>> \o MulLimbFrom(a, d, i + 1, t \div Base)

RECURSIVE MulN(_, _)
MulN(a, b) ==
    IF b = <<>> \/ a = <<>> THEN <<>>
    ELSE AddN(Norm(MulLimbFrom(a, b[1], 1, 0)), Norm(<<0>> \o MulN(a, Tail(b))))

RECURSIVE Zeros(_)
Zeros(n) == IF n = 0 THEN <<>> ELSE <<0>> \o Zeros(n - 1)

\* a * 2^k
ShlN(a, k) ==
    IF a = <<>> THEN <<>>
    ELSE Zeros(k \div 12) \o MulLimbFrom(a, 2^(k % 12), 1, 0)

\* floor(a / 2^r) for r < 12, from the top limb down
RECURSIVE ShrBitsFrom(_, _, _, _)
ShrBitsFrom(a, r, i, carry) ==
    IF i = 0 THEN <<>>
    ELSE LET t == carry * Base + a[i]
         IN  ShrBitsFrom(a, r, i - 1, t % (2^r)) \o <<t \div (2^r)>>

\* floor(a / 2^k)
ShrN(a, k) ==
    LET q == k \div 12
        d == IF q >= Len(a) THEN <<>> ELSE SubSeq(a, q + 1, Len(a))
    IN  Norm(ShrBitsFrom(d, k % 12, Len(d), 0))

RECURSIVE BitLenInt(_)
BitLenInt(n) == IF n = 0 THEN 0 ELSE 1 + BitLenInt(n \div 2)

BitLenN(a) ==
    IF a = <<>> THEN 0 ELSE 12 * (Len(a) - 1) + BitLenInt(a[Len(a)])

RECURSIVE LessFrom(_, _, _)
LessFrom(a, b, i) ==
    IF i = 0 THEN FALSE
    ELSE IF a[i] # b[i] THEN a[i] < b[i]
    ELSE LessFrom(a, b, i - 1)

\* a < b, both normalised
LessN(a, b) ==
    IF Len(a) # Len(b) THEN Len(a) < Len(b) ELSE LessFrom(a, b, Len(a))

LeqN(a, b) == ~LessN(b, a)

(***************************************************************************)
(* u32 arithmetic.  A u32 product is computed exactly and then cut to 32   *)
(* bits; `overflow` tells whether the cut changed it.                      *)
(***************************************************************************)
FitsU32(a) == BitLenN(a) <= 32

WrapU32(a) == Norm(<<Limb(a, 1), Limb(a, 2), Limb(a, 3) % 256>>)

U32Max == <<Base - 1, Base - 1, 255>>

MulU32(a, b) ==
    LET p == MulN(a, b)
    IN  [overflow |-> ~FitsU32(p), value |-> WrapU32(p)]

(***************************************************************************)
(* f32 values (finite, non-negative): [m, e] stands for m * 2^e with       *)
(* 2^23 <= m < 2^24, or m = 0.  Every operation rounds to nearest, ties    *)
(* to even, as IEEE 754 binary32 does.                                     *)
(***************************************************************************)
ZeroF32 == [m |-> 0, e |-> 0]

\* The f32 nearest to (q + f) * 2^e, where 0 <= f < 1 and f # 0 iff sticky.
RoundF32(q, sticky, e) ==
    LET L == BitLenInt(q)
    IN  IF q = 0 THEN ZeroF32
        ELSE IF L <= 24 THEN [m |-> q * 2^(24 - L), e |-> e - (24 - L)]
        ELSE LET sh   == L - 24
                 top  == q \div 2^sh
                 rem  == q % 2^sh
                 half == 2^(sh - 1)
                 up   == rem > half \/ (rem = half /\ (sticky \/ top % 2 = 1))
                 m1   == IF up THEN top + 1 ELSE top
             IN  IF m1 = 2^24 THEN [m |-> 2^23, e |-> e + sh + 1]
                 ELSE [m |-> m1, e |-> e + sh]

\* The f32 nearest to a * 2^e, a an exact natural number.
RoundN(a, e) ==
    LET L == BitLenN(a)
    IN  IF L <= 30 THEN RoundF32(ToInt(a), FALSE, e)
        ELSE LET sh == L - 30
                 hi == ShrN(a, sh)
             IN  RoundF32(ToInt(hi), ShlN(hi, sh) # a, e + sh)

\* `n as f32` for an unsigned integer n
ToF32(a) == RoundN(a, 0)

MulF32(x, y) ==
    IF x.m = 0 \/ y.m = 0 THEN ZeroF32
    ELSE RoundN(MulN(FromInt(x.m), FromInt(y.m)), x.e + y.e)

\* floor(n * 2^k / d) and the remainder, bit by bit (n < d * 2, d < 2^24)
RECURSIVE LongDiv(_, _, _)
LongDiv(n, d, k) ==
    IF k = 0 THEN [q |-> n \div d, r |-> n % d]
    ELSE LET p == LongDiv(n, d, k - 1)
         IN  [q |-> 2 * p.q + (2 * p.r) \div d, r |-> (2 * p.r) % d]

\* The two non-finite results of a division by zero: x / 0 and 0 / 0.
InfF32 == [m |-> 0 - 1, e |-> 0]

NaNF32 == [m |-> 0 - 2, e |-> 0]

\* x / y
DivF32(x, y) ==
    IF y.m = 0 THEN (IF x.m = 0 THEN NaNF32 ELSE InfF32)
    ELSE IF x.m = 0 THEN ZeroF32
    ELSE LET d == LongDiv(x.m, y.m, 26)
         IN  RoundF32(d.q, d.r # 0, x.e - y.e - 26)

\* `x as u32`: truncation toward zero, saturating at u32::MAX
TruncU32(x) ==
    IF x.m = 0 THEN <<>>
    ELSE IF x.e >= 9 THEN U32Max
    ELSE IF x.e >= 0
         THEN LET v == ShlN(FromInt(x.m), x.e)
              IN  IF FitsU32(v) THEN v ELSE U32Max
    ELSE IF 0 - x.e >= 24 THEN <<>>
    ELSE FromInt(x.m \div 2^(0 - x.e))

(***************************************************************************)
(* u8 channel arithmetic (main.rs 125-133).                                *)
(***************************************************************************)
\* u8::abs_diff
AbsDiff(v1, v2) == IF v1 >= v2 THEN v1 - v2 ELSE v2 - v1

\* bitwise or of two u8 values, bit by bit
RECURSIVE BitOr(_, _)
BitOr(a, b) ==
    IF a = 0 THEN b
    ELSE IF b = 0 THEN a
    ELSE (IF a % 2 = 1 \/ b % 2 = 1 THEN 1 ELSE 0) + 2 * BitOr(a \div 2, b \div 2)

\* Faulty variants of the closure below: the difference is not halved; the
\* comparison is >= ; the comparison is < .
ChannelDiffNoShift(v1, v2, value_threshold) ==
    LET diff == AbsDiff(v1, v2)
    IN  IF diff > value_threshold
        THEN [different |-> TRUE, value |-> BitOr(128, diff) % 256]
        ELSE [different |-> FALSE, value |-> 0]

ChannelDiffGe(v1, v2, value_threshold) ==
    LET diff == AbsDiff(v1, v2)
    IN  IF diff >= value_threshold
        THEN [different |-> TRUE, value |-> BitOr(128, diff \div 2)]
        ELSE [different |-> FALSE, value |-> 0]

ChannelDiffLt(v1, v2, value_threshold) ==
    LET diff == AbsDiff(v1, v2)
    IN  IF diff < value_threshold
        THEN [different |-> TRUE, value |-> BitOr(128, diff \div 2)]
        ELSE [different |-> FALSE, value |-> 0]

\* The closure mapped over a pair of channels: the value it returns for the
\* error image, and whether it set is_pixel_different.
ChannelDiff(v1, v2, value_threshold) ==
    LET diff == AbsDiff(v1, v2)
    IN  IF diff > value_threshold
        THEN [different |-> TRUE, value |-> BitOr(128, diff \div 2)]
        ELSE [different |-> FALSE, value |-> 0]

\* A faulty variant of the count below: one per divergent channel.
CountedPerChannel(wrong_pixels, ch) ==
    wrong_pixels + Cardinality({i \in 1..3 : ch[i].different})

\* wrong_pixels after a pixel whose three channels gave ch: is_pixel_different
\* is set when any channel set it, and the pixel then counts once.
Counted(wrong_pixels, ch) ==
    IF \E i \in 1..3 : ch[i].different THEN wrong_pixels + 1 ELSE wrong_pixels

Coords(w, h) == (0..(w - 1)) \X (0..(h - 1))

\* The two nested loops, x outer and y inner, from pixel (x, y) on.
RECURSIVE ScanFrom(_, _, _, _, _, _, _)
ScanFrom(img1, img2, size, value_threshold, x, y, acc) ==
    IF x >= size[1] THEN acc
    ELSE IF y >= size[2]
         THEN ScanFrom(img1, img2, size, value_threshold, x + 1, 0, acc)
    ELSE LET pixel1 == img1.px[<<x, y>>]
             pixel2 == img2.px[<<x, y>>]
             ch     == [i \in 1..3 |->
                            ChannelDiff(pixel1[i], pixel2[i], value_threshold)]
         IN  ScanFrom(img1, img2, size, value_threshold, x, y + 1,
                 [error_img |->
                      [acc.error_img EXCEPT ![<<x, y>>] =
                           <<ch[1].value, ch[2].value, ch[3].value>>],
                  wrong_pixels |-> Counted(acc.wrong_pixels, ch)])

\* The error image starts black (RgbImage::new) and the counter at 0.
ScanImage(img1, img2, size, value_threshold) ==
    ScanFrom(img1, img2, size, value_threshold, 0, 0,
        [error_img |-> [c \in Coords(size[1], size[2]) |-> <<0, 0, 0>>],
         wrong_pixels |-> 0])

(***************************************************************************)
(* Threshold (main.rs 12-38).                                              *)
(***************************************************************************)
Absolute(n) == [kind |-> "Absolute", value |-> FromInt(n), ratio |-> ZeroF32]

Ratio(r) == [kind |-> "Ratio", value |-> <<>>, ratio |-> r]

\* Threshold::try_from for a string of digits, with or without a final "%"
ThresholdTryFrom(digits, percent) ==
    IF percent
    THEN Ratio(DivF32(ToF32(FromInt(digits)), ToF32(FromInt(100))))
    ELSE Absolute(digits)

\* The pixel count the threshold stands for, and whether the u32 product
\* image_size.0 * image_size.1 overflowed on the way.
get_actual_threshold(threshold, image_size) ==
    IF threshold.kind = "Absolute"
    THEN [overflow |-> FALSE, value |-> threshold.value]
    ELSE LET p == MulU32(FromInt(image_size[1]), FromInt(image_size[2]))
         IN  [overflow |-> p.overflow,
              value |-> TruncU32(MulF32(threshold.ratio, ToF32(p.value)))]

(***************************************************************************)
(* Verbosity (main.rs 42-48).                                              *)
(***************************************************************************)
SILENT == 0

DEFAULT == 1

VERBOSE == 2

(***************************************************************************)
(* State.  cfg is what the process is started with and never changes: the  *)
(* two image files, the Options, whether the output path can be written,   *)
(* and whether the build checks integer overflow (a debug build panics on  *)
(* an overflowing u32 product, a release build wraps).  st is the state    *)
(* of the run: the position in run()/main(), run()'s locals, what has      *)
(* been printed and written, and the exit code.                            *)
(***************************************************************************)
VARIABLES cfg, st

vars == <<cfg, st>>

NoImage == [c \in {} |-> <<0, 0, 0>>]

Start ==
    [pc             |-> "read",
     steps          |-> <<>>,
     size           |-> <<0, 0>>,
     error_thresold |-> <<>>,
     error_img      |-> NoImage,
     wrong_pixels   |-> 0,
     mismatch       |-> FALSE,
     ret            |-> "none",
     stdout         |-> <<>>,
     stderr         |-> <<>>,
     percent        |-> [printed |-> FALSE, value |-> ZeroF32],
     written        |-> [present |-> FALSE, img |-> NoImage],
     exit_code      |-> "none"]

At(s, here) == [s EXCEPT !.steps = Append(@, here)]

\* A panic of the main thread: the message goes to stderr whatever the
\* verbosity, and the process ends with the runtime's panic exit code.
Panic(s) ==
    [s EXCEPT !.pc = "exit", !.stderr = Append(@, "panicked"),
              !.exit_code = "panic"]

(***************************************************************************)
(* run(), block by block.                                                  *)
(***************************************************************************)
\* main.rs 88-95: open and decode both files; the first error is returned.
ReadImages(c, s0) ==
    LET s == At(s0, "read")
    IN  IF c.file1.ok /\ c.file2.ok
        THEN [s EXCEPT !.pc = "size"]
        ELSE [s EXCEPT !.pc = "main", !.ret = "err"]

\* A faulty variant of the size check: only the widths are compared.
CheckSizeWidthOnly(c, s0) ==
    LET s     == At(s0, "size")
        size1 == <<c.file1.w, c.file1.h>>
        size2 == <<c.file2.w, c.file2.h>>
    IN  IF size1[1] # size2[1]
        THEN [s EXCEPT !.pc = "main", !.ret = "ok_false",
                       !.stdout = IF c.options.verbosity > SILENT
                                  THEN Append(@, "Images have different sizes")
                                  ELSE @]
        ELSE [s EXCEPT !.pc = "resolve", !.size = size1]

\* main.rs 98-107: the size check
CheckSize(c, s0) ==
    LET s     == At(s0, "size")
        size1 == <<c.file1.w, c.file1.h>>
        size2 == <<c.file2.w, c.file2.h>>
    IN  IF size1 # size2
        THEN [s EXCEPT !.pc = "main", !.ret = "ok_false",
                       !.stdout = IF c.options.verbosity > SILENT
                                  THEN Append(@, "Images have different sizes")
                                  ELSE @]
        ELSE [s EXCEPT !.pc = "resolve", !.size = size1]

\* main.rs 109-110
Resolve(c, s0) ==
    LET s == At(s0, "resolve")
        t == get_actual_threshold(c.options.error_threshold, s.size)
    IN  IF t.overflow /\ c.overflow_checks
        THEN Panic(s)
        ELSE [s EXCEPT !.pc = "scan", !.error_thresold = t.value]

\* main.rs 113-139
Scan(c, s0) ==
    LET s == At(s0, "scan")
        r == ScanImage(c.file1, c.file2, s.size, c.options.value_threshold)
    IN  [s EXCEPT !.pc = "save", !.error_img = r.error_img,
                  !.wrong_pixels = r.wrong_pixels]

\* main.rs 113-139 for an image too large to enumerate: the loop leaves in
\* wrong_pixels the number of mismatched coordinates, which the
\* configuration gives (c.ndiff); the error image is not materialised.
ScanLarge(c, s0) ==
    LET s == At(s0, "scan")
    IN  [s EXCEPT !.pc = "save", !.wrong_pixels = c.ndiff]

\* main.rs 142-144
Save(c, s0) ==
    LET s == At(s0, "save")
    IN  IF ~c.options.output THEN [s EXCEPT !.pc = "decide"]
        ELSE IF c.writable
        THEN [s EXCEPT !.pc = "decide",
                       !.written = [present |-> TRUE, img |-> s.error_img]]
        ELSE [s EXCEPT !.pc = "main", !.ret = "err"]

\* A faulty variant of the decision: >= instead of >.
DecideGe(c, s0) ==
    LET s        == At(s0, "decide")
        mismatch == LeqN(s.error_thresold, FromInt(s.wrong_pixels))
    IN  [s EXCEPT !.mismatch = mismatch,
                  !.stdout = IF c.options.verbosity > SILENT
                             THEN Append(@, IF mismatch THEN "MISMATCH DETECTED"
                                                        ELSE "MATCH")
                             ELSE @,
                  !.pc = IF c.options.verbosity = VERBOSE THEN "percent"
                                                          ELSE "return"]

\* main.rs 147-151
Decide(c, s0) ==
    LET s        == At(s0, "decide")
        mismatch == LessN(s.error_thresold, FromInt(s.wrong_pixels))
    IN  [s EXCEPT !.mismatch = mismatch,
                  !.stdout = IF c.options.verbosity > SILENT
                             THEN Append(@, IF mismatch THEN "MISMATCH DETECTED"
                                                        ELSE "MATCH")
                             ELSE @,
                  !.pc = IF c.options.verbosity = VERBOSE THEN "percent"
                                                          ELSE "return"]

\* main.rs 152-154: the two u32 products, then the f32 division
Percent(c, s0) ==
    LET s   == At(s0, "percent")
        num == MulU32(FromInt(100), FromInt(s.wrong_pixels))
        den == MulU32(FromInt(s.size[1]), FromInt(s.size[2]))
    IN  IF (num.overflow \/ den.overflow) /\ c.overflow_checks
        THEN Panic(s)
        ELSE [s EXCEPT !.pc = "return",
                       !.stdout = Append(@, "Different Pixels"),
                       !.percent = [printed |-> TRUE,
                                    value |-> DivF32(ToF32(num.value),
                                                     ToF32(den.value))]]

\* main.rs 157
Return(c, s0) ==
    LET s == At(s0, "return")
    IN  [s EXCEPT !.pc = "main",
                  !.ret = IF s.mismatch THEN "ok_false" ELSE "ok_true"]

\* main.rs 199-209
MainExit(c, s0) ==
    LET s == At(s0, "main")
    IN  IF s.ret = "ok_true"
        THEN [s EXCEPT !.pc = "exit", !.exit_code = "SUCCESS"]
        ELSE IF s.ret = "ok_false"
        THEN [s EXCEPT !.pc = "exit", !.exit_code = "FAILURE"]
        ELSE [s EXCEPT !.pc = "exit", !.exit_code = "FAILURE",
                       !.stderr = IF c.options.verbosity > SILENT
                                  THEN Append(@, "Error")
                                  ELSE @]

\* One step of the process from position s.pc.
Step(c, s) ==
    CASE s.pc = "read"    -> ReadImages(c, s)
      [] s.pc = "size"    -> CheckSize(c, s)
      [] s.pc = "resolve" -> Resolve(c, s)
      [] s.pc = "scan"    -> IF c.large THEN ScanLarge(c, s) ELSE Scan(c, s)
      [] s.pc = "save"    -> Save(c, s)
      [] s.pc = "decide"  -> Decide(c, s)
      [] s.pc = "percent" -> Percent(c, s)
      [] s.pc = "return"  -> Return(c, s)
      [] s.pc = "main"    -> MainExit(c, s)
      [] OTHER            -> s

\* The process run to its end.
RECURSIVE Exec(_, _)
Exec(c, s) == IF s.pc = "exit" THEN s ELSE Exec(c, Step(c, s))

(***************************************************************************)
(* Actions.                                                                *)
(***************************************************************************)
DoReadImages ==
    st.pc = "read" /\ st' = ReadImages(cfg, st) /\ UNCHANGED cfg

DoCheckSize ==
    st.pc = "size" /\ st' = CheckSize(cfg, st) /\ UNCHANGED cfg

DoResolve ==
    st.pc = "resolve" /\ st' = Resolve(cfg, st) /\ UNCHANGED cfg

DoScan ==
    st.pc = "scan" /\ ~cfg.large /\ st' = Scan(cfg, st) /\ UNCHANGED cfg

DoScanLarge ==
    st.pc = "scan" /\ cfg.large /\ st' = ScanLarge(cfg, st) /\ UNCHANGED cfg

DoSave ==
    st.pc = "save" /\ st' = Save(cfg, st) /\ UNCHANGED cfg

DoDecide ==
    st.pc = "decide" /\ st' = Decide(cfg, st) /\ UNCHANGED cfg

DoPercent ==
    st.pc = "percent" /\ st' = Percent(cfg, st) /\ UNCHANGED cfg

DoReturn ==
    st.pc = "return" /\ st' = Return(cfg, st) /\ UNCHANGED cfg

DoMainExit ==
    st.pc = "main" /\ st' = MainExit(cfg, st) /\ UNCHANGED cfg

(***************************************************************************)
(* Inputs.                                                                 *)
(***************************************************************************)
MaxW == 2

MaxH == 2

MaxPixels == 4

MaxAbsolute == 1

\* Pixel values: PixB differs from PixA by (6, 7, 225), PixC from PixB by
\* (10, 0, 0).
PixA == <<10, 200, 30>>

PixB == <<16, 207, 255>>

PixC == <<26, 207, 255>>

PixelPairs ==
    {<<PixA, PixA>>, <<PixB, PixB>>, <<PixA, PixB>>, <<PixB, PixC>>}

ValueThresholds == {0, 6, 255}

Percents == {50}

Verbosities == {SILENT, DEFAULT, VERBOSE}

Sizes ==
    {s \in (1..MaxW) \X (1..MaxH) : s[1] * s[2] <= MaxPixels}

ImageFile(size, px) == [ok |-> TRUE, w |-> size[1], h |-> size[2], px |-> px]

\* A file that cannot be opened or decoded.
BadFile == [ok |-> FALSE, w |-> 0, h |-> 0, px |-> NoImage]

Uniform(size) ==
    ImageFile(size, [c \in Coords(size[1], size[2]) |-> PixA])

SameSizePairs ==
    UNION { { <<ImageFile(size, [c \in Coords(size[1], size[2]) |-> f[c][1]]),
                ImageFile(size, [c \in Coords(size[1], size[2]) |-> f[c][2]])>> :
              f \in [Coords(size[1], size[2]) -> PixelPairs] } :
            size \in Sizes }

DiffSizePairs ==
    { <<Uniform(p[1]), Uniform(p[2])>> :
        p \in {q \in Sizes \X Sizes : q[1] # q[2]} }

UnreadablePairs ==
    { <<BadFile, Uniform(<<1, 1>>)>>, <<Uniform(<<1, 1>>), BadFile>>,
      <<BadFile, BadFile>> }

ErrorThresholds ==
    {ThresholdTryFrom(n, FALSE) : n \in 0..MaxAbsolute}
        \cup {ThresholdTryFrom(n, TRUE) : n \in Percents}

\* The output path: none, one that can be written, one that cannot.
Outputs == {<<FALSE, TRUE>>, <<TRUE, TRUE>>, <<TRUE, FALSE>>}

Configs ==
    { [file1 |-> f[1], file2 |-> f[2],
       options |-> [value_threshold |-> t, error_threshold |-> e,
                    output |-> o[1], verbosity |-> v],
       writable |-> o[2], overflow_checks |-> b,
       large |-> FALSE, ndiff |-> 0] :
      f \in SameSizePairs \cup DiffSizePairs \cup UnreadablePairs,
      t \in ValueThresholds, e \in ErrorThresholds, o \in Outputs,
      v \in Verbosities, b \in BOOLEAN }

\* Images too large to enumerate pixel by pixel: only the size is kept,
\* and the number of coordinates at which the two images are mismatched.
LargeSizes ==
    {<<10, 10>>, <<4097, 4097>>, <<8192, 6144>>, <<65536, 65536>>}

MismatchCounts == {0, 50, 51, 42949672, 42949673}

LargeFile(size) == [ok |-> TRUE, w |-> size[1], h |-> size[2], px |-> NoImage]

LargeErrorThresholds ==
    {ThresholdTryFrom(n, FALSE) : n \in {0, 50}}
        \cup {ThresholdTryFrom(n, TRUE) : n \in {33, 50, 100}}

LargePairs ==
    { <<LargeFile(size), LargeFile(size), n>> :
        size \in LargeSizes,
        n \in MismatchCounts }
    \cup { <<LargeFile(<<10, 10>>), LargeFile(<<10, 11>>), 0>>,
           <<LargeFile(<<10, 10>>), BadFile, 0>> }

LargeConfigs ==
    { [file1 |-> f[1], file2 |-> f[2],
       options |-> [value_threshold |-> 0, error_threshold |-> e,
                    output |-> o[1], verbosity |-> v],
       writable |-> o[2], overflow_checks |-> b,
       large |-> TRUE, ndiff |-> f[3]] :
      f \in {g \in LargePairs :
                LeqN(FromInt(g[3]), MulN(FromInt(g[1].w), FromInt(g[1].h)))},
      e \in LargeErrorThresholds, o \in Outputs,
      v \in Verbosities, b \in BOOLEAN }

(***************************************************************************)
(* Specifications.  Spec runs the process on small images given pixel by   *)
(* pixel; SpecLarge runs it on images of realistic and extreme sizes.      *)
(***************************************************************************)
Init == cfg \in Configs /\ st = Start

InitLarge == cfg \in LargeConfigs /\ st = Start

Next ==
    \/ DoReadImages
    \/ DoCheckSize
    \/ DoResolve
    \/ DoScan
    \/ DoSave
    \/ DoDecide
    \/ DoPercent
    \/ DoReturn
    \/ DoMainExit

NextLarge ==
    \/ DoReadImages
    \/ DoCheckSize
    \/ DoResolve
    \/ DoScanLarge
    \/ DoSave
    \/ DoDecide
    \/ DoPercent
    \/ DoReturn
    \/ DoMainExit

Spec == Init /\ [][Next]_vars

SpecLarge == InitLarge /\ [][NextLarge]_vars

(***************************************************************************)
(* Properties.                                                             *)
(***************************************************************************)
Ran(step) == \E i \in 1..Len(st.steps) : st.steps[i] = step

Readable == cfg.file1.ok /\ cfg.file2.ok

EqualSized ==
    Readable /\ cfg.file1.w = cfg.file2.w /\ cfg.file1.h = cfg.file2.h

DifferentSizes ==
    Readable /\ (cfg.file1.w # cfg.file2.w \/ cfg.file1.h # cfg.file2.h)

AllCoords == Coords(cfg.file1.w, cfg.file1.h)

\* |v1 - v2| of channel i at coordinate c
Delta(c, i) ==
    LET v1 == cfg.file1.px[c][i]
        v2 == cfg.file2.px[c][i]
    IN  IF v1 - v2 >= 0 THEN v1 - v2 ELSE v2 - v1

WithErrorThreshold(c, e) ==
    [c EXCEPT !.options = [@ EXCEPT !.error_threshold = e]]

WithVerbosity(c, v) ==
    [c EXCEPT !.options = [@ EXCEPT !.verbosity = v]]

\* C1: for equal-sized images run() reports a match iff the number of
\* mismatched pixels is at most the resolved error threshold: the decision,
\* the printed verdict, the value run() returns and the exit code that
\* main() derives from it all say so.
C1_MatchIffWithinThreshold ==
    LET within == st.wrong_pixels <= ToInt(st.error_thresold)
    IN  (EqualSized /\ Ran("decide")) =>
            /\ st.mismatch = ~within
            /\ cfg.options.verbosity > SILENT =>
                   st.stdout[1] = (IF within THEN "MATCH" ELSE "MISMATCH DETECTED")
            /\ Ran("return") =>
                   st.ret = (IF within THEN "ok_true" ELSE "ok_false")
            /\ Ran("main") =>
                   st.exit_code = (IF within THEN "SUCCESS" ELSE "FAILURE")

\* A run whose count equals its threshold and matches, while the same run
\* with the threshold one lower (count = threshold + 1) does not.
C1_Witness ==
    /\ st.pc = "exit" /\ EqualSized
    /\ cfg.options.error_threshold.kind = "Absolute"
    /\ st.wrong_pixels >= 1
    /\ st.wrong_pixels = ToInt(st.error_thresold)
    /\ st.ret = "ok_true"
    /\ Exec(WithErrorThreshold(cfg, Absolute(st.wrong_pixels - 1)), Start).ret
           = "ok_false"

\* C2: after the scan of two equal-sized images, wrong_pixels is the number
\* of coordinates at which at least one channel differs by more than the
\* channel threshold; a pixel counts once however many channels diverge.
C2_CountIsMismatchedPixels ==
    (EqualSized /\ Ran("scan")) =>
        st.wrong_pixels =
            Cardinality({c \in AllCoords :
                \E i \in 1..3 : Delta(c, i) > cfg.options.value_threshold})

\* A scan that met a pixel with several divergent channels, a pixel with
\* exactly one, and a pixel with none.
C2_Witness ==
    /\ EqualSized /\ Ran("scan")
    /\ \E c \in AllCoords :
           Cardinality({i \in 1..3 :
               Delta(c, i) > cfg.options.value_threshold}) >= 2
    /\ \E c \in AllCoords :
           Cardinality({i \in 1..3 :
               Delta(c, i) > cfg.options.value_threshold}) = 1
    /\ \E c \in AllCoords :
           \A i \in 1..3 : Delta(c, i) <= cfg.options.value_threshold
    /\ st.wrong_pixels = 2

\* C3: the diff image written for two equal-sized images holds, for every
\* pixel and channel with difference d, 0 when d <= t and 128 + (d >> 1),
\* a value in 128..255, when d > t; it is written whenever an output path
\* is configured and writable, whatever the decision turns out to be.
C3_DiffImageMapping ==
    /\ (EqualSized /\ st.written.present) =>
           /\ DOMAIN st.written.img = AllCoords
           /\ \A c \in AllCoords : \A i \in 1..3 :
                  LET d == Delta(c, i)
                      v == st.written.img[c][i]
                  IN  IF d <= cfg.options.value_threshold
                      THEN v = 0
                      ELSE v = 128 + (d \div 2) /\ v \in 128..255
    /\ (EqualSized /\ cfg.options.output /\ cfg.writable /\ Ran("save")) =>
           st.written.present

\* A matching run that wrote a diff image with a channel at the boundary
\* (d = t, written 0) and one just above it (d = t + 1), while the same
\* images under a stricter error threshold mismatch and write the same image.
C3_Witness ==
    /\ st.pc = "exit" /\ EqualSized /\ st.written.present
    /\ st.ret = "ok_true"
    /\ \E c \in AllCoords :
           /\ Delta(c, 1) = cfg.options.value_threshold /\ Delta(c, 1) > 0
           /\ Delta(c, 2) = cfg.options.value_threshold + 1
           /\ st.written.img[c][1] = 0
           /\ st.written.img[c][2] = 128 + (Delta(c, 2) \div 2)
    /\ LET other == Exec(WithErrorThreshold(cfg, Absolute(0)), Start)
       IN  other.ret = "ok_false" /\ other.written = st.written

\* C4: when the two images differ in width or height, run() returns
\* non-match without resolving a threshold or scanning a pixel, and writes
\* no diff image, whatever the thresholds and the output path.
C4_DifferentSizesNoScan ==
    DifferentSizes =>
        /\ ~Ran("resolve") /\ ~Ran("scan") /\ ~Ran("save") /\ ~Ran("decide")
        /\ st.wrong_pixels = 0
        /\ st.error_img = NoImage
        /\ ~st.written.present
        /\ Ran("size") => st.pc \in {"main", "exit"} /\ st.ret = "ok_false"
        /\ st.pc = "exit" => st.exit_code = "FAILURE"

\* Two images of the same width and different heights, compared with an
\* output path that could have been written.
C4_Witness ==
    /\ DifferentSizes /\ cfg.file1.w = cfg.file2.w
    /\ cfg.options.output /\ cfg.writable
    /\ st.pc = "exit" /\ st.ret = "ok_false"

\* C5: comparing an image with an identical image counts 0 mismatched
\* pixels and yields a match, for every channel threshold and every error
\* threshold; a run that ends without a panic returns the match, unless
\* writing the diff image fails.
C5_IdenticalImagesMatch ==
    (Readable /\ cfg.file1 = cfg.file2) =>
        /\ Ran("scan") => st.wrong_pixels = 0
        /\ Ran("decide") => ~st.mismatch
        /\ st.ret # "ok_false"
        /\ st.ret = "err" => cfg.options.output /\ ~cfg.writable
        /\ (st.pc = "exit" /\ st.ret # "err" /\ st.exit_code # "panic") =>
               st.ret = "ok_true" /\ st.exit_code = "SUCCESS"

\* An image of two different pixels compared with itself under the
\* strictest thresholds.
C5_Witness ==
    /\ Readable /\ cfg.file1 = cfg.file2
    /\ \E c, d \in AllCoords : cfg.file1.px[c] # cfg.file1.px[d]
    /\ cfg.options.value_threshold = 0
    /\ cfg.options.error_threshold = Absolute(0)
    /\ st.pc = "exit" /\ st.ret = "ok_true"

ProbeThresholds == {0, 5, 6, 7, 9, 10, 224, 225, 254, 255}

CountAt(t) ==
    ScanImage(cfg.file1, cfg.file2, st.size, t).wrong_pixels

\* C6: for fixed equal-sized images the count does not grow with the
\* channel threshold: the count of the run is at most the count of a scan
\* with any smaller threshold and at least that of a scan with any larger
\* one, and with threshold 255 the count is 0.
C6_CountMonotoneInThreshold ==
    (EqualSized /\ st.pc = "save") =>
        /\ \A t \in ProbeThresholds :
               /\ t <= cfg.options.value_threshold => st.wrong_pixels <= CountAt(t)
               /\ t >= cfg.options.value_threshold => CountAt(t) <= st.wrong_pixels
        /\ CountAt(255) = 0

\* A pair of images whose count strictly drops, without reaching 0, when
\* the threshold is raised.
C6_Witness ==
    /\ EqualSized /\ st.pc = "save"
    /\ \E t \in ProbeThresholds :
           /\ t > cfg.options.value_threshold
           /\ 0 < CountAt(t) /\ CountAt(t) < st.wrong_pixels

\* floor(x * n) in exact arithmetic, x an f32 value and n a natural number
FloorMul(x, n) ==
    IF x.m = 0 THEN <<>>
    ELSE IF x.e >= 0 THEN ShlN(MulN(FromInt(x.m), n), x.e)
    ELSE ShrN(MulN(FromInt(x.m), n), 0 - x.e)

\* C7: get_actual_threshold resolves Absolute(n) to n and Ratio(r) to
\* floor(r * w * h), for every image size, also those whose w * h does not
\* fit in 32 bits.
C7_ResolvesToFloor ==
    (EqualSized /\ Ran("resolve")) =>
        /\ st.exit_code # "panic" \/ Ran("scan")
        /\ st.error_thresold =
               IF cfg.options.error_threshold.kind = "Absolute"
               THEN cfg.options.error_threshold.value
               ELSE FloorMul(cfg.options.error_threshold.ratio,
                             MulN(FromInt(cfg.file1.w), FromInt(cfg.file1.h)))

Observed(s) == <<s.ret, s.written, s.exit_code>>

\* C8: two runs that differ only in verbosity return the same result,
\* write the same diff image and exit with the same code.
C8_VerbosityOnlyText ==
    st.pc = "exit" =>
        \A v \in Verbosities :
            Observed(Exec(WithVerbosity(cfg, v), Start)) = Observed(st)

\* C9: the process exits with code zero iff both images were read, have
\* equal dimensions, the diff image (if asked for) was written, and the
\* count does not exceed the resolved threshold; an error aborts the run.
C9_ExitCodeZeroIffMatch ==
    st.pc = "exit" =>
        /\ st.exit_code = "SUCCESS" <=>
               /\ EqualSized
               /\ cfg.options.output => st.written.present
               /\ Ran("scan")
               /\ LeqN(FromInt(st.wrong_pixels), st.error_thresold)
        /\ st.ret = "err" => ~Ran("decide")

\* C10: in a verbose run on equal-sized images the printed percentage is
\* 100 * wrong_pixels / (width * height), the two products taken without
\* wrap-around or failure.
C10_PercentageExact ==
    (EqualSized /\ cfg.options.verbosity = VERBOSE /\ Ran("percent")) =>
        /\ st.percent.printed
        /\ st.percent.value =
               DivF32(ToF32(MulN(FromInt(100), FromInt(st.wrong_pixels))),
                      ToF32(MulN(FromInt(cfg.file1.w), FromInt(cfg.file1.h))))

====
